---- MODULE Spec2Model ----
(***************************************************************************)
(* Model of the command execution and result classification engine of      *)
(* ariga.io/atlas-go-sdk/atlasexec: Client.runCommand, jsonDecode,         *)
(* jsonDecodeErr, firstResult and the public operations built on them.     *)
(*                                                                         *)
(* Text (stdout, stderr) is a sequence of lexical chunks: a chunk is a run *)
(* of whitespace, the text of one JSON object, or text that is not JSON.   *)
(* A *T result is a sequence of length at most one (nil is << >>), a []*T  *)
(* result is a sequence of records.                                        *)
(*                                                                         *)
(* Spec is the client called one operation at a time; SpecEnv adds the     *)
(* caller's configuration of the environment (SetEnv and the maps handed   *)
(* to it); SpecCtx is runCommand in steps, with the caller's context and   *)
(* the child's processes; SpecWD is WithWorkDir called by two callers at   *)
(* once and SpecNest WithWorkDir nested by one caller; SpecArgs is the     *)
(* building of the --var arguments; SpecFS is the WorkingDir helper over a *)
(* model of the temporary directories on the disk.                         *)
(***************************************************************************)
EXTENDS Integers, Sequences, FiniteSets, TLC

VARIABLES op,       \* the operation of the last call
          exit,     \* how the child process of the last call ended
          stdout,   \* the bytes the child wrote to standard output
          stderr,   \* the bytes the child wrote to standard error
          res,      \* the result the call returned
          rd,       \* the reader (or string) the call returned
          err,      \* the error the call returned
          started,  \* number of child processes the call started
          params,   \* whether the parameters of the call passed validation
          writer,   \* params.Writer: "nil", "buffer", or "broken"
          written,  \* what the call wrote to params.Writer
          cmdEnv,   \* cmd.Env: the environment handed to the child
          maps,     \* the map objects the caller owns, by identity
          cenv,     \* c.env: 0 is nil, else the identity of a caller's map
          arg,      \* the identity of the map handed to SetEnv
          pc,       \* runCommand: "idle", "running" (in cmd.Run), "returned"
          ctx,      \* the caller's context: "live" or "cancelled"
          child,    \* the child: "none", "running", "exited", "killed"
          orphan,   \* a descendant of the child holds its output pipes
          workingDir, \* c.workingDir
          wpc,      \* WithWorkDir: the position of each concurrent caller
          wsaved,   \* WithWorkDir: the local wd of each caller
          wran,     \* the directory the command of each caller ran in
          vtype,    \* the type of the input value: "Vars" or "Vars2"
          vmap,     \* the input value: a map from names to values
          built,    \* the argument vectors AsArgs returned for vmap, in order
          disk,     \* the paths that exist under os.TempDir()
          wdir,     \* the *WorkingDir the caller holds: 0 is nil
          made,     \* the directory the last NewWorkingDir created: 0 is none
          nextDir,  \* how many temporary directories were created so far
          stack,    \* the WithWorkDir calls in progress, innermost last
          ret,      \* how the last finished WithWorkDir call ended
          cmdDir    \* cmd.Dir of the last command a callback ran

callVars == <<op, exit, stdout, stderr, res, rd, err, started, params,
              writer, written, cmdEnv>>
envVars == <<maps, cenv, arg>>
ctxVars == <<pc, ctx, child, orphan>>
wdVars == <<workingDir, wpc, wsaved, wran>>
argVars == <<vtype, vmap, built>>
fsVars == <<disk, wdir, made, nextDir>>
nestVars == <<stack, ret, cmdDir>>
auxVars == <<argVars, fsVars, nestVars>>
vars == <<callVars, envVars, ctxVars, wdVars, auxVars>>

----------------------------------------------------------------------------
(* Bounds of the model. *)

MaxOut == 3   \* longest stdout, in chunks
MaxErr == 2   \* longest stderr, in chunks
MaxElems == 2 \* longest slice in a Vars2 map
MaxBuilds == 2 \* calls of AsArgs on one value
MaxDirs == 2  \* temporary directories made by NewWorkingDir
MaxOpts == 2  \* options of one NewWorkingDir call
MaxDepth == 4 \* nested WithWorkDir calls

----------------------------------------------------------------------------
(* Text. *)

NL == "\n"
SP == " "
Space == {NL, SP}

\* The text of the JSON objects the child may emit.
Obj1 == "{\"Target\":\"t1\"}"
Obj2 == "{\"Target\":\"t2\",\"Error\":\"e2\"}"
Obj3 == "{\"Target\":\"t3\",\"Error\":\"e3\"}"
NotJSON == "not json"
ErrText == "Error: boom"

OutChunks == {NL, Obj1, Obj2, Obj3, NotJSON}
ErrChunks == {NL, ErrText}

RECURSIVE SeqsUpTo(_, _)
SeqsUpTo(S, n) ==
    IF n = 0 THEN {<< >>}
    ELSE LET shorter == SeqsUpTo(S, n - 1)
         IN  shorter \cup {Append(s, c) : s \in shorter, c \in S}

Stdouts == SeqsUpTo(OutChunks, MaxOut)
Stderrs == SeqsUpTo(ErrChunks, MaxErr)

\* strings.TrimSpace: drop the leading and the trailing whitespace.
RECURSIVE TrimLeft(_)
TrimLeft(s) ==
    IF s # << >> /\ Head(s) \in Space THEN TrimLeft(Tail(s)) ELSE s

RECURSIVE TrimRight(_)
TrimRight(s) ==
    IF s # << >> /\ s[Len(s)] \in Space
    THEN TrimRight(SubSeq(s, 1, Len(s) - 1)) ELSE s

TrimSpace(s) == TrimRight(TrimLeft(s))

----------------------------------------------------------------------------
(* Records and errors. *)

\* json.Unmarshal of one object into the result struct; a missing field
\* keeps its zero value.
Unmarshal ==
    (Obj1 :> [Target |-> "t1", Error |-> ""]) @@
    (Obj2 :> [Target |-> "t2", Error |-> "e2"]) @@
    (Obj3 :> [Target |-> "t3", Error |-> "e3"])

NoErr == [type |-> "nil", cause |-> "", Stdout |-> << >>, Stderr |-> << >>,
          Result |-> << >>]

\* &Error{err: cause, Stdout: out, Stderr: errOut}
Error(cause, out, errOut) ==
    [type |-> "Error", cause |-> cause, Stdout |-> out, Stderr |-> errOut,
     Result |-> << >>]

\* errors.New(msg)
errorString(msg) ==
    [type |-> "errorString", cause |-> msg, Stdout |-> << >>,
     Stderr |-> << >>, Result |-> << >>]

newMigrateApplyError(r) ==
    [type |-> "MigrateApplyError", cause |-> "", Stdout |-> << >>,
     Stderr |-> << >>, Result |-> r]

newSchemaApplyError(r) ==
    [type |-> "SchemaApplyError", cause |-> "", Stdout |-> << >>,
     Stderr |-> << >>, Result |-> r]

----------------------------------------------------------------------------
(* The child process: exec.Cmd.Run. *)

\* "success": exit status 0; "failure": a non-zero exit status, reported by
\* Run as an *exec.ExitError; "notstarted": Run failed before the child
\* ran (no such executable, no such directory), so nothing was written;
\* "killed": the context was cancelled while the child was running and
\* exec.CommandContext killed it, reported by Run as an *exec.ExitError
\* (signal: killed), whatever the child had written so far.
ExitStatus == {"success", "failure", "notstarted", "killed"}

Killed == "exec.ExitError: signal: killed"
ExitErrors == {"exec.ExitError", Killed}

RunErr(x) ==
    IF x = "failure" THEN "exec.ExitError"
    ELSE IF x = "killed" THEN Killed
    ELSE "exec.Error"

Outcome(x, out, e) ==
    /\ x \in ExitStatus
    /\ out \in Stdouts
    /\ e \in Stderrs
    /\ x = "notstarted" => (out = << >> /\ e = << >>)

\* A slip: a command that failed is run once more.
Started_retries(x) ==
    IF x = "notstarted" THEN 0 ELSE IF x = "failure" THEN 2 ELSE 1

Started(x) == IF x = "notstarted" THEN 0 ELSE 1

\* A slip: anything on stderr is an error, whatever the exit status.
runCommand_stderrFails(x, out, e) ==
    IF x # "success" \/ e # << >>
    THEN [r |-> << >>,
          err |-> Error(RunErr(x), TrimSpace(out), TrimSpace(e))]
    ELSE [r |-> out, err |-> NoErr]

\* A slip: stdout is trimmed on success as it is on failure.
runCommand_trimsReader(x, out, e) ==
    IF x # "success"
    THEN [r |-> << >>,
          err |-> Error(RunErr(x), TrimSpace(out), TrimSpace(e))]
    ELSE [r |-> TrimSpace(out), err |-> NoErr]

\* A slip: the streams are kept as written, without strings.TrimSpace.
runCommand_untrimmed(x, out, e) ==
    IF x # "success"
    THEN [r |-> << >>, err |-> Error(RunErr(x), out, e)]
    ELSE [r |-> out, err |-> NoErr]

\* A slip: stderr is kept as written, only stdout is trimmed.
runCommand_rawStderr(x, out, e) ==
    IF x # "success"
    THEN [r |-> << >>, err |-> Error(RunErr(x), TrimSpace(out), e)]
    ELSE [r |-> out, err |-> NoErr]

\* Client.runCommand: the pair (io.Reader, error); a nil reader is << >>.
runCommand(x, out, e) ==
    IF x # "success"
    THEN [r |-> << >>,
          err |-> Error(RunErr(x), TrimSpace(out), TrimSpace(e))]
    ELSE [r |-> out, err |-> NoErr]

----------------------------------------------------------------------------
(* The decoders. *)

DecodeErr == "decoding JSON from stdout"

\* A slip: each record is put in front of the records decoded so far.
RECURSIVE decodeLoop_prepend(_, _, _)
decodeLoop_prepend(buf, rest, dst) ==
    IF rest = << >> THEN [r |-> dst, err |-> NoErr]
    ELSE IF Head(rest) \in Space THEN decodeLoop_prepend(buf, Tail(rest), dst)
    ELSE IF Head(rest) \in DOMAIN Unmarshal
         THEN decodeLoop_prepend(buf, Tail(rest),
                                 <<Unmarshal[Head(rest)]>> \o dst)
    ELSE [r |-> << >>, err |-> Error(DecodeErr, buf, << >>)]

\* A slip: a failure keeps the records decoded so far and reports the
\* input that is left.
RECURSIVE decodeLoop_partial(_, _, _)
decodeLoop_partial(buf, rest, dst) ==
    IF rest = << >> THEN [r |-> dst, err |-> NoErr]
    ELSE IF Head(rest) \in Space THEN decodeLoop_partial(buf, Tail(rest), dst)
    ELSE IF Head(rest) \in DOMAIN Unmarshal
         THEN decodeLoop_partial(buf, Tail(rest),
                                 Append(dst, Unmarshal[Head(rest)]))
    ELSE [r |-> dst, err |-> Error(DecodeErr, rest, << >>)]

\* The loop of jsonDecode: json.Decoder.Decode skips whitespace, decodes
\* the next value, and reports io.EOF at the end of the input.
RECURSIVE decodeLoop(_, _, _)
decodeLoop(buf, rest, dst) ==
    IF rest = << >> THEN [r |-> dst, err |-> NoErr]
    ELSE IF Head(rest) \in Space THEN decodeLoop(buf, Tail(rest), dst)
    ELSE IF Head(rest) \in DOMAIN Unmarshal
         THEN decodeLoop(buf, Tail(rest), Append(dst, Unmarshal[Head(rest)]))
    ELSE [r |-> << >>, err |-> Error(DecodeErr, buf, << >>)]

jsonDecode(r, e) ==
    IF e # NoErr THEN [r |-> << >>, err |-> e]
    ELSE decodeLoop(r, r, << >>)

\* The constructor handed to jsonDecodeErr, applied to the decoded records.
\* The constructors of atlas_models.go keep the records only: the stderr
\* text is not part of the error value they build.
fnApply(fn, d) ==
    IF fn = "newMigrateApplyError" THEN newMigrateApplyError(d)
    ELSE newSchemaApplyError(d)

\* A slip in the guard: stdout is decoded when stderr is empty, also when
\* stdout is empty.
jsonDecodeErr_stderrGate(fn, r, e) ==
    IF e # NoErr
    THEN IF e.type = "Error" /\ e.Stderr = << >>
         THEN LET d == jsonDecode(e.Stdout, NoErr)
              IN  IF d.err = NoErr
                  THEN [r |-> << >>, err |-> fnApply(fn, d.r)]
                  ELSE [r |-> << >>, err |-> e]
         ELSE [r |-> << >>, err |-> e]
    ELSE jsonDecode(r, e)

\* A slip: the stdout of every CLI error is decoded, also when it is empty.
jsonDecodeErr_ungated(fn, r, e) ==
    IF e # NoErr
    THEN IF e.type = "Error"
         THEN LET d == jsonDecode(e.Stdout, NoErr)
              IN  IF d.err = NoErr
                  THEN [r |-> << >>, err |-> fnApply(fn, d.r)]
                  ELSE [r |-> << >>, err |-> e]
         ELSE [r |-> << >>, err |-> e]
    ELSE jsonDecode(r, e)

\* jsonDecodeErr(fn)(r, err)
jsonDecodeErr(fn, r, e) ==
    IF e # NoErr
    THEN IF e.type = "Error" /\ e.Stdout # << >>
         THEN LET d == jsonDecode(e.Stdout, NoErr)
              IN  IF d.err = NoErr
                  THEN [r |-> << >>, err |-> fnApply(fn, d.r)]
                  ELSE [r |-> << >>, err |-> e]
         ELSE [r |-> << >>, err |-> e]
    ELSE jsonDecode(r, e)

MoreThanOne ==
    "The command returned more than one result, use Slice function instead"

\* A slip: the first record is returned whenever there is one.
firstResult_atLeastOne(d) ==
    IF d.err # NoErr THEN [r |-> << >>, err |-> d.err]
    ELSE IF Len(d.r) >= 1 THEN [r |-> <<d.r[1]>>, err |-> NoErr]
    ELSE [r |-> << >>, err |-> errorString(MoreThanOne)]

\* A slip: the number of records is looked at before the error.
firstResult_countFirst(d) ==
    IF Len(d.r) = 1 THEN [r |-> <<d.r[1]>>, err |-> NoErr]
    ELSE [r |-> << >>, err |-> errorString(MoreThanOne)]

firstResult(d) ==
    IF d.err # NoErr THEN [r |-> << >>, err |-> d.err]
    ELSE IF Len(d.r) = 1 THEN [r |-> <<d.r[1]>>, err |-> NoErr]
    ELSE [r |-> << >>, err |-> errorString(MoreThanOne)]

\* A slip: the first element instead of the last.
last_first(a) == IF Len(a) > 0 THEN <<a[1]>> ELSE << >>

\* last(a): the last element, or the zero value (a nil *T) of an empty
\* slice.
last(a) == IF Len(a) > 0 THEN <<a[Len(a)]>> ELSE << >>

\* MigrateApplyError.Error and SchemaApplyError.Error: last(e.Result).Error;
\* reading the field through a nil pointer panics.
Panic == "panic: nil pointer dereference"
ApplyError_Error(e) ==
    IF last(e.Result) = << >> THEN Panic ELSE last(e.Result)[1].Error

\* The message of a line "Error: <msg>" of the CLI.
Msg == "boom"

\* A slip: the prefix "Error: " is cut from the text, as the Summary of
\* the former cliError did.
Error_Error_summary(e) ==
    LET s == IF e.Stderr # << >> THEN e.Stderr ELSE e.Stdout
    IN  IF s # << >> /\ Head(s) = ErrText THEN <<Msg>> \o Tail(s) ELSE s

\* Error.Error
Error_Error(e) == IF e.Stderr # << >> THEN e.Stderr ELSE e.Stdout

\* The code of a child that exited with failure, and what
\* new(exec.ExitError).ExitCode() returns: the code of no process state,
\* which is also the code of a child ended by a signal.
FailedExitCode == 1
DefaultExitCode == -1

\* A slip: without an *exec.ExitError the code is that of success.
ExitCode_zero(e) ==
    IF e.cause \in ExitErrors
    THEN [panic |-> FALSE,
          code |-> IF e.cause = Killed THEN DefaultExitCode
                   ELSE FailedExitCode]
    ELSE [panic |-> FALSE, code |-> 0]

\* Error.ExitCode: whether the call panics, and the code it returns.
ExitCode(e) ==
    IF e.cause \in ExitErrors
    THEN [panic |-> FALSE,
          code |-> IF e.cause = Killed THEN DefaultExitCode
                   ELSE FailedExitCode]
    ELSE [panic |-> FALSE, code |-> DefaultExitCode]

----------------------------------------------------------------------------
(* The public operations, as functions of the child's outcome. *)

Copilot(x, out, e) ==
    LET rc == runCommand(x, out, e) IN jsonDecode(rc.r, rc.err)

MigrateStatus(x, out, e) ==
    LET rc == runCommand(x, out, e) IN firstResult(jsonDecode(rc.r, rc.err))

MigrateApplySlice(x, out, e) ==
    LET rc == runCommand(x, out, e)
    IN  jsonDecodeErr("newMigrateApplyError", rc.r, rc.err)

MigrateApply(x, out, e) == firstResult(MigrateApplySlice(x, out, e))

SchemaApplySlice(x, out, e) ==
    LET rc == runCommand(x, out, e)
    IN  jsonDecodeErr("newSchemaApplyError", rc.r, rc.err)

SchemaApply(x, out, e) == firstResult(SchemaApplySlice(x, out, e))

\* A slip: the CLI error is kept whatever its stderr.
MigrateDown_keepsError(x, out, e) ==
    LET rc == runCommand(x, out, e)
    IN  firstResult(jsonDecode(rc.r, rc.err))

\* The tail shared by MigrateLint and MigrateDown: a CLI error with empty
\* stderr is replaced by a reader of its stdout.
MigrateDown(x, out, e) ==
    LET rc == runCommand(x, out, e)
        soft == rc.err.type = "Error" /\ rc.err.Stderr = << >>
        r == IF soft THEN rc.err.Stdout ELSE rc.r
        er == IF soft THEN NoErr ELSE rc.err
    IN  firstResult(jsonDecode(r, er))

\* Logout returns the error of runCommand and drops the reader.
Logout(x, out, e) == [r |-> << >>, err |-> runCommand(x, out, e).err]

\* A slip: WhoAmI reads the stdout of a failure with empty stderr, as
\* MigrateLint does.
WhoAmI_soft(x, out, e) == MigrateDown(x, out, e)

WhoAmI(x, out, e) ==
    LET rc == runCommand(x, out, e) IN firstResult(jsonDecode(rc.r, rc.err))

NotSupported ==
    "atlasexec: Writer or Web reporting are not supported with MigrateLint, use MigrateLintError"

MigrateLint(writerOrWeb, x, out, e) ==
    IF writerOrWeb THEN [r |-> << >>, err |-> errorString(NotSupported)]
    ELSE LET rc == runCommand(x, out, e)
             soft == rc.err.type = "Error" /\ rc.err.Stderr = << >>
             r == IF soft THEN rc.err.Stdout ELSE rc.r
             er == IF soft THEN NoErr ELSE rc.err
         IN  firstResult(jsonDecode(r, er))

\* The sentinel LintErr, the error of a writer that fails, and errors.Join
\* of the errors that are not nil.
LintErr == errorString("lint error")
ErrClosedPipe == errorString("io: read/write on closed pipe")
IsNil(e) == e.type = "nil"
joinError(a, b) ==
    [type |-> "joinError", cause |-> "", Stdout |-> << >>, Stderr |-> << >>,
     Result |-> SelectSeq(<<a, b>>, LAMBDA e : ~IsNil(e))]
\* errors.Is(e, target), for a target compared by identity.
Is(e, target) ==
    \/ e = target
    \/ e.type = "joinError" /\ \E i \in DOMAIN e.Result : e.Result[i] = target

Writers == {"nil", "buffer", "broken"}

\* A slip: the sentinel replaces the CLI error before stderr is looked at.
MigrateLintError_stdoutFirst(wr, x, out, e) ==
    LET rc == runCommand(x, out, e)
        isCLI == rc.err.type = "Error"
        lint == isCLI /\ rc.err.Stdout # << >>
        er == IF lint THEN LintErr ELSE rc.err
        r == IF lint THEN rc.err.Stdout ELSE rc.r
        hasReader == lint \/ ~isCLI
    IN  IF wr # "nil" /\ hasReader
        THEN IF wr = "broken" /\ r # << >>
             THEN [err |-> joinError(er, ErrClosedPipe), written |-> << >>]
             ELSE [err |-> er, written |-> r]
        ELSE [err |-> er, written |-> << >>]

\* Client.MigrateLintError with params.Writer wr: the error returned and
\* the text written to the writer. The reader is nil exactly when
\* runCommand failed and its stdout was not taken.
MigrateLintError(wr, x, out, e) ==
    LET rc == runCommand(x, out, e)
        isCLI == rc.err.type = "Error"
        lint == isCLI /\ rc.err.Stdout # << >>
        er == IF lint THEN LintErr ELSE rc.err
        r == IF lint THEN rc.err.Stdout ELSE rc.r
        hasReader == lint \/ ~isCLI
    IN  IF isCLI /\ rc.err.Stderr # << >>
        THEN [err |-> rc.err, written |-> << >>]
        ELSE IF wr # "nil" /\ hasReader
        THEN IF wr = "broken" /\ r # << >>
             THEN [err |-> joinError(er, ErrClosedPipe), written |-> << >>]
             ELSE [err |-> er, written |-> r]
        ELSE [err |-> er, written |-> << >>]

\* A slip: the error of runCommand is dropped and the text returned.
stringVal_dropsError(r, e) == [r |-> r, err |-> NoErr]

\* stringVal(r, err): all the text of the reader.
stringVal(r, e) ==
    IF ~IsNil(e) THEN [r |-> << >>, err |-> e] ELSE [r |-> r, err |-> NoErr]

\* &InvalidParamsError{cmd, msg}
InvalidParamsError(cmd, msg) ==
    [type |-> "InvalidParamsError", cause |-> msg, Stdout |-> << >>,
     Stderr |-> << >>, Result |-> << >>]

\* The operations that check their parameters before anything is run:
\* missing is whether the required parameter is empty.
Login(missing, x, out, e) ==
    IF missing THEN [r |-> << >>, err |-> errorString("token cannot be empty")]
    ELSE [r |-> << >>, err |-> runCommand(x, out, e).err]

MigratePush(missing, x, out, e) ==
    IF missing
    THEN [r |-> << >>, err |-> errorString("directory name cannot be empty")]
    ELSE LET rc == runCommand(x, out, e)
             sv == stringVal(rc.r, rc.err)
         IN  [r |-> TrimSpace(sv.r), err |-> sv.err]

SchemaPlanPush(missing, x, out, e) ==
    IF missing
    THEN [r |-> << >>,
          err |-> InvalidParamsError("schema plan push",
                                     "missing required flag --file")]
    ELSE LET rc == runCommand(x, out, e) IN stringVal(rc.r, rc.err)

SchemaPlanPull(missing, x, out, e) ==
    IF missing
    THEN [r |-> << >>,
          err |-> InvalidParamsError("schema plan pull",
                                     "missing required flag --url")]
    ELSE LET rc == runCommand(x, out, e) IN stringVal(rc.r, rc.err)

SchemaPlanLint(missing, x, out, e) ==
    IF missing
    THEN [r |-> << >>,
          err |-> InvalidParamsError("schema plan lint",
                                     "missing required flag --file")]
    ELSE LET rc == runCommand(x, out, e)
         IN  firstResult(jsonDecode(rc.r, rc.err))

SchemaPlanValidate(missing, x, out, e) ==
    IF missing
    THEN [r |-> << >>,
          err |-> InvalidParamsError("schema plan validate",
                                     "missing required flag --file")]
    ELSE LET rc == runCommand(x, out, e)
         IN  [r |-> << >>, err |-> stringVal(rc.r, rc.err).err]

SchemaPlanApprove(missing, x, out, e) ==
    IF missing
    THEN [r |-> << >>,
          err |-> InvalidParamsError("schema plan approve",
                                     "missing required flag --url")]
    ELSE LET rc == runCommand(x, out, e)
         IN  firstResult(jsonDecode(rc.r, rc.err))

----------------------------------------------------------------------------
(* Client.WithWorkDir: the directories. *)

OrigDir == "."
Callers == {1, 2}
Dir(g) == IF g = 1 THEN "dir1" ELSE "dir2"

----------------------------------------------------------------------------
(* The environment of the child: Client.SetEnv, Environ, defaultEnvs.      *)
(* A key, a value and a "k=v" entry are sequences of tokens, so that an    *)
(* entry is the concatenation Environ.ToSlice builds and the child's       *)
(* reading of it is a split at the first "=".                              *)

MaxMaps == 2  \* number of map objects the caller owns

Notifier == "ATLAS_NO_UPDATE_NOTIFIER"
Suggestions == "ATLAS_NO_UPGRADE_SUGGESTIONS"
Home == "HOME"
Eq == "="

\* The tokens in the byte order slices.Sort compares strings by.
TokenOrder == <<"0", "1", "2", Eq, Notifier, Suggestions, Home>>
Rank(t) == CHOOSE i \in DOMAIN TokenOrder : TokenOrder[i] = t

\* The keys and values a caller puts in a map handed to SetEnv.
EnvKeys == {<<Notifier>>, <<Suggestions>>, <<Home>>, <<Notifier, Eq, "2">>}
EnvVals == {<<"0">>}
Environs == UNION {[D -> EnvVals] : D \in SUBSET EnvKeys}
MapIds == 1..MaxMaps

defaultEnvs == [k \in {<<Notifier>>, <<Suggestions>>} |-> <<"1">>]

\* NewOSEnviron: the environment of this process; it may itself disable or
\* enable the notifier.
NewOSEnviron == [k \in {<<Home>>, <<Notifier>>} |-> <<"0">>]

\* maps.Copy(dst, src): every pair of src is set in dst.
mapsCopy(dst, src) ==
    [k \in DOMAIN dst \cup DOMAIN src |->
        IF k \in DOMAIN src THEN src[k] ELSE dst[k]]

\* s < t in the order of strings.
RECURSIVE StrLess(_, _)
StrLess(s, t) ==
    IF t = << >> THEN FALSE
    ELSE IF s = << >> THEN TRUE
    ELSE IF s[1] # t[1] THEN Rank(s[1]) < Rank(t[1])
    ELSE StrLess(Tail(s), Tail(t))

RECURSIVE Sorted(_)
Sorted(S) ==
    IF S = {} THEN << >>
    ELSE LET m == CHOOSE x \in S : \A y \in S : x = y \/ StrLess(x, y)
         IN  <<m>> \o Sorted(S \ {m})

\* Environ.ToSlice: the entries k+"="+v, sorted.
ToSlice(m) == Sorted({k \o <<Eq>> \o m[k] : k \in DOMAIN m})

\* The name and the value the child reads in an entry: the text before and
\* after the first "=".
RECURSIVE EntryKey(_)
EntryKey(entry) ==
    IF entry = << >> \/ entry[1] = Eq THEN << >>
    ELSE <<entry[1]>> \o EntryKey(Tail(entry))
EntryVal(entry) == SubSeq(entry, Len(EntryKey(entry)) + 2, Len(entry))

\* The value of cmd.Env in runCommand, for c.env being nil (0) or the map
\* object of that identity, as it is now.
CmdEnv(c_env, heap) ==
    ToSlice(mapsCopy(IF c_env = 0 THEN NewOSEnviron ELSE heap[c_env],
                     defaultEnvs))

CannotOverride ==
    "atlasexec: cannot override the default environment variable"

\* A slip: the map is kept before its keys are checked.
SetEnv_keepsFirst(c_env, i, heap) ==
    IF i # 0 /\ \E k \in DOMAIN heap[i] : k \in DOMAIN defaultEnvs
    THEN [env |-> i, err |-> errorString(CannotOverride)]
    ELSE [env |-> i, err |-> NoErr]

\* Client.SetEnv(env), env being nil (0) or the map object i: the new value
\* of c.env and the error returned.
SetEnv(c_env, i, heap) ==
    IF i # 0 /\ \E k \in DOMAIN heap[i] : k \in DOMAIN defaultEnvs
    THEN [env |-> c_env, err |-> errorString(CannotOverride)]
    ELSE [env |-> i, err |-> NoErr]

----------------------------------------------------------------------------
(* The state machine: every step is one call of one operation. *)

Init ==
    /\ op = "none"
    /\ exit = "none"
    /\ stdout = << >>
    /\ stderr = << >>
    /\ res = << >>
    /\ rd = << >>
    /\ err = NoErr
    /\ started = 0
    /\ params = "none"
    /\ writer = "nil"
    /\ written = << >>
    /\ cmdEnv = << >>
    /\ maps = [i \in MapIds |-> << >>]
    /\ cenv = 0
    /\ arg = 0
    /\ pc = "idle"
    /\ ctx = "live"
    /\ child = "none"
    /\ orphan = FALSE
    /\ workingDir = OrigDir
    /\ wpc = [g \in Callers |-> "idle"]
    /\ wsaved = [g \in Callers |-> OrigDir]
    /\ wran = [g \in Callers |-> "none"]
    /\ vtype = "Vars2"
    /\ vmap = << >>
    /\ built = << >>
    /\ disk = {}
    /\ wdir = 0
    /\ made = 0
    /\ nextDir = 0
    /\ stack = << >>
    /\ ret = "none"
    /\ cmdDir = "none"

\* The client is synchronous: a call starts when no call's values are held.
Idle == op = "none"

\* The child after cmd.Run returned with the exit status x.
ChildAfter(x) ==
    IF x = "notstarted" THEN "none"
    ELSE IF x = "killed" THEN "killed"
    ELSE "exited"

\* A call with valid parameters that went through runCommand once, and
\* wrote w to its params.Writer wr.
RanW(name, x, out, e, wr, w) ==
    /\ op' = name
    /\ exit' = x
    /\ stdout' = out
    /\ stderr' = e
    /\ started' = Started(x)
    /\ params' = "valid"
    /\ writer' = wr
    /\ written' = w
    /\ cmdEnv' = CmdEnv(cenv, maps)
    /\ pc' = "returned"
    /\ ctx' = IF x = "killed" THEN "cancelled" ELSE "live"
    /\ child' = ChildAfter(x)
    /\ orphan' = FALSE
    /\ UNCHANGED <<envVars, wdVars, auxVars>>

Ran(name, x, out, e) == RanW(name, x, out, e, "nil", << >>)

\* A call that returned before runCommand: no process, nothing read.
Rejected(name) ==
    /\ op' = name
    /\ exit' = "none"
    /\ stdout' = << >>
    /\ stderr' = << >>
    /\ started' = 0
    /\ params' = "invalid"
    /\ writer' = "nil"
    /\ written' = << >>
    /\ cmdEnv' = << >>
    /\ UNCHANGED <<envVars, ctxVars, wdVars, auxVars>>

CallRunCommand ==
    /\ Idle
    /\ \E x \in ExitStatus, out \in Stdouts, e \in Stderrs :
        /\ Outcome(x, out, e)
        /\ Ran("runCommand", x, out, e)
        /\ rd' = runCommand(x, out, e).r
        /\ err' = runCommand(x, out, e).err
        /\ res' = << >>

CallCopilot ==
    /\ Idle
    /\ \E x \in ExitStatus, out \in Stdouts, e \in Stderrs :
        /\ Outcome(x, out, e)
        /\ Ran("Copilot", x, out, e)
        /\ res' = Copilot(x, out, e).r
        /\ err' = Copilot(x, out, e).err
        /\ rd' = << >>

CallWhoAmI ==
    /\ Idle
    /\ \E x \in ExitStatus, out \in Stdouts, e \in Stderrs :
        /\ Outcome(x, out, e)
        /\ Ran("WhoAmI", x, out, e)
        /\ res' = WhoAmI(x, out, e).r
        /\ err' = WhoAmI(x, out, e).err
        /\ rd' = << >>

CallMigrateStatus ==
    /\ Idle
    /\ \E x \in ExitStatus, out \in Stdouts, e \in Stderrs :
        /\ Outcome(x, out, e)
        /\ Ran("MigrateStatus", x, out, e)
        /\ res' = MigrateStatus(x, out, e).r
        /\ err' = MigrateStatus(x, out, e).err
        /\ rd' = << >>

CallMigrateApplySlice ==
    /\ Idle
    /\ \E x \in ExitStatus, out \in Stdouts, e \in Stderrs :
        /\ Outcome(x, out, e)
        /\ Ran("MigrateApplySlice", x, out, e)
        /\ res' = MigrateApplySlice(x, out, e).r
        /\ err' = MigrateApplySlice(x, out, e).err
        /\ rd' = << >>

CallMigrateApply ==
    /\ Idle
    /\ \E x \in ExitStatus, out \in Stdouts, e \in Stderrs :
        /\ Outcome(x, out, e)
        /\ Ran("MigrateApply", x, out, e)
        /\ res' = MigrateApply(x, out, e).r
        /\ err' = MigrateApply(x, out, e).err
        /\ rd' = << >>

CallSchemaApplySlice ==
    /\ Idle
    /\ \E x \in ExitStatus, out \in Stdouts, e \in Stderrs :
        /\ Outcome(x, out, e)
        /\ Ran("SchemaApplySlice", x, out, e)
        /\ res' = SchemaApplySlice(x, out, e).r
        /\ err' = SchemaApplySlice(x, out, e).err
        /\ rd' = << >>

CallSchemaApply ==
    /\ Idle
    /\ \E x \in ExitStatus, out \in Stdouts, e \in Stderrs :
        /\ Outcome(x, out, e)
        /\ Ran("SchemaApply", x, out, e)
        /\ res' = SchemaApply(x, out, e).r
        /\ err' = SchemaApply(x, out, e).err
        /\ rd' = << >>

CallMigrateDown ==
    /\ Idle
    /\ \E x \in ExitStatus, out \in Stdouts, e \in Stderrs :
        /\ Outcome(x, out, e)
        /\ Ran("MigrateDown", x, out, e)
        /\ res' = MigrateDown(x, out, e).r
        /\ err' = MigrateDown(x, out, e).err
        /\ rd' = << >>

\* MigrateLint rejects Writer/Web before any process is started.
CallMigrateLint ==
    \/ /\ Idle
       /\ Rejected("MigrateLint")
       /\ res' = MigrateLint(TRUE, "notstarted", << >>, << >>).r
       /\ err' = MigrateLint(TRUE, "notstarted", << >>, << >>).err
       /\ rd' = << >>
    \/ /\ Idle
       /\ \E x \in ExitStatus, out \in Stdouts, e \in Stderrs :
            /\ Outcome(x, out, e)
            /\ Ran("MigrateLint", x, out, e)
            /\ res' = MigrateLint(FALSE, x, out, e).r
            /\ err' = MigrateLint(FALSE, x, out, e).err
            /\ rd' = << >>

CallLogin ==
    \/ /\ Idle
       /\ Rejected("Login")
       /\ res' = << >>
       /\ err' = Login(TRUE, "notstarted", << >>, << >>).err
       /\ rd' = << >>
    \/ /\ Idle
       /\ \E x \in ExitStatus, out \in Stdouts, e \in Stderrs :
            /\ Outcome(x, out, e)
            /\ Ran("Login", x, out, e)
            /\ res' = << >>
            /\ err' = Login(FALSE, x, out, e).err
            /\ rd' = << >>

CallMigratePush ==
    \/ /\ Idle
       /\ Rejected("MigratePush")
       /\ res' = << >>
       /\ err' = MigratePush(TRUE, "notstarted", << >>, << >>).err
       /\ rd' = MigratePush(TRUE, "notstarted", << >>, << >>).r
    \/ /\ Idle
       /\ \E x \in ExitStatus, out \in Stdouts, e \in Stderrs :
            /\ Outcome(x, out, e)
            /\ Ran("MigratePush", x, out, e)
            /\ res' = << >>
            /\ err' = MigratePush(FALSE, x, out, e).err
            /\ rd' = MigratePush(FALSE, x, out, e).r

CallSchemaPlanPush ==
    \/ /\ Idle
       /\ Rejected("SchemaPlanPush")
       /\ res' = << >>
       /\ err' = SchemaPlanPush(TRUE, "notstarted", << >>, << >>).err
       /\ rd' = SchemaPlanPush(TRUE, "notstarted", << >>, << >>).r
    \/ /\ Idle
       /\ \E x \in ExitStatus, out \in Stdouts, e \in Stderrs :
            /\ Outcome(x, out, e)
            /\ Ran("SchemaPlanPush", x, out, e)
            /\ res' = << >>
            /\ err' = SchemaPlanPush(FALSE, x, out, e).err
            /\ rd' = SchemaPlanPush(FALSE, x, out, e).r

CallSchemaPlanPull ==
    \/ /\ Idle
       /\ Rejected("SchemaPlanPull")
       /\ res' = << >>
       /\ err' = SchemaPlanPull(TRUE, "notstarted", << >>, << >>).err
       /\ rd' = SchemaPlanPull(TRUE, "notstarted", << >>, << >>).r
    \/ /\ Idle
       /\ \E x \in ExitStatus, out \in Stdouts, e \in Stderrs :
            /\ Outcome(x, out, e)
            /\ Ran("SchemaPlanPull", x, out, e)
            /\ res' = << >>
            /\ err' = SchemaPlanPull(FALSE, x, out, e).err
            /\ rd' = SchemaPlanPull(FALSE, x, out, e).r

CallSchemaPlanLint ==
    \/ /\ Idle
       /\ Rejected("SchemaPlanLint")
       /\ res' = SchemaPlanLint(TRUE, "notstarted", << >>, << >>).r
       /\ err' = SchemaPlanLint(TRUE, "notstarted", << >>, << >>).err
       /\ rd' = << >>
    \/ /\ Idle
       /\ \E x \in ExitStatus, out \in Stdouts, e \in Stderrs :
            /\ Outcome(x, out, e)
            /\ Ran("SchemaPlanLint", x, out, e)
            /\ res' = SchemaPlanLint(FALSE, x, out, e).r
            /\ err' = SchemaPlanLint(FALSE, x, out, e).err
            /\ rd' = << >>

CallSchemaPlanValidate ==
    \/ /\ Idle
       /\ Rejected("SchemaPlanValidate")
       /\ res' = << >>
       /\ err' = SchemaPlanValidate(TRUE, "notstarted", << >>, << >>).err
       /\ rd' = << >>
    \/ /\ Idle
       /\ \E x \in ExitStatus, out \in Stdouts, e \in Stderrs :
            /\ Outcome(x, out, e)
            /\ Ran("SchemaPlanValidate", x, out, e)
            /\ res' = << >>
            /\ err' = SchemaPlanValidate(FALSE, x, out, e).err
            /\ rd' = << >>

CallSchemaPlanApprove ==
    \/ /\ Idle
       /\ Rejected("SchemaPlanApprove")
       /\ res' = SchemaPlanApprove(TRUE, "notstarted", << >>, << >>).r
       /\ err' = SchemaPlanApprove(TRUE, "notstarted", << >>, << >>).err
       /\ rd' = << >>
    \/ /\ Idle
       /\ \E x \in ExitStatus, out \in Stdouts, e \in Stderrs :
            /\ Outcome(x, out, e)
            /\ Ran("SchemaPlanApprove", x, out, e)
            /\ res' = SchemaPlanApprove(FALSE, x, out, e).r
            /\ err' = SchemaPlanApprove(FALSE, x, out, e).err
            /\ rd' = << >>

CallMigrateLintError ==
    /\ Idle
    /\ \E wr \in Writers, x \in ExitStatus, out \in Stdouts, e \in Stderrs :
        /\ Outcome(x, out, e)
        /\ RanW("MigrateLintError", x, out, e, wr,
                MigrateLintError(wr, x, out, e).written)
        /\ err' = MigrateLintError(wr, x, out, e).err
        /\ res' = << >>
        /\ rd' = << >>

\* Logout, the child's outcome drawn from the given sets.
LogoutFrom(Outs, Errs) ==
    /\ Idle
    /\ \E x \in ExitStatus, out \in Outs, e \in Errs :
        /\ Outcome(x, out, e)
        /\ Ran("Logout", x, out, e)
        /\ err' = Logout(x, out, e).err
        /\ res' = << >>
        /\ rd' = << >>

CallLogout == LogoutFrom(Stdouts, Stderrs)

\* SetEnv starts no process; the caller hands nil (0) or one of its maps.
CallSetEnv ==
    /\ Idle
    /\ \E i \in {0} \cup MapIds :
        /\ arg' = i
        /\ cenv' = SetEnv(cenv, i, maps).env
        /\ err' = SetEnv(cenv, i, maps).err
    /\ op' = "SetEnv"
    /\ exit' = "none"
    /\ stdout' = << >>
    /\ stderr' = << >>
    /\ started' = 0
    /\ params' = "none"
    /\ res' = << >>
    /\ rd' = << >>
    /\ UNCHANGED <<writer, written, cmdEnv, maps, ctxVars, wdVars, auxVars>>

\* The caller writes to, or deletes from, a map it owns, between two calls;
\* the client may hold that very map in c.env.
MutateMap ==
    /\ Idle
    /\ \E i \in MapIds, k \in EnvKeys :
        \/ \E v \in EnvVals :
             maps' = [maps EXCEPT ![i] =
                        [j \in DOMAIN maps[i] \cup {k} |->
                            IF j = k THEN v ELSE maps[i][j]]]
        \/ /\ k \in DOMAIN maps[i]
           /\ maps' = [maps EXCEPT ![i] =
                         [j \in DOMAIN maps[i] \ {k} |-> maps[i][j]]]
    /\ UNCHANGED <<callVars, cenv, arg, ctxVars, wdVars, auxVars>>

\* The caller is done with the returned values: nothing is kept between
\* calls.
Discard ==
    /\ ~Idle
    /\ pc # "running"
    /\ op' = "none"
    /\ exit' = "none"
    /\ stdout' = << >>
    /\ stderr' = << >>
    /\ res' = << >>
    /\ rd' = << >>
    /\ err' = NoErr
    /\ started' = 0
    /\ params' = "none"
    /\ writer' = "nil"
    /\ written' = << >>
    /\ cmdEnv' = << >>
    /\ arg' = 0
    /\ pc' = "idle"
    /\ ctx' = "live"
    /\ child' = "none"
    /\ orphan' = FALSE
    /\ UNCHANGED <<maps, cenv, wdVars, auxVars>>

Next ==
    \/ CallRunCommand
    \/ CallCopilot
    \/ CallWhoAmI
    \/ CallMigrateStatus
    \/ CallMigrateApplySlice
    \/ CallMigrateApply
    \/ CallSchemaApplySlice
    \/ CallSchemaApply
    \/ CallMigrateDown
    \/ CallMigrateLint
    \/ CallMigrateLintError
    \/ CallLogout
    \/ CallLogin
    \/ CallMigratePush
    \/ CallSchemaPlanPush
    \/ CallSchemaPlanPull
    \/ CallSchemaPlanLint
    \/ CallSchemaPlanValidate
    \/ CallSchemaPlanApprove
    \/ Discard

Spec == Init /\ [][Next]_vars

\* The client and a caller that configures the environment, changes its
\* maps and runs commands.
NextEnv ==
    \/ CallSetEnv
    \/ MutateMap
    \/ LogoutFrom({<< >>}, {<< >>, <<ErrText>>})
    \/ Discard

SpecEnv == Init /\ [][NextEnv]_vars

----------------------------------------------------------------------------
(* runCommand in steps: cmd.Run starts the child, waits for it and for the *)
(* copying of its output, while the caller may cancel the context.         *)

\* What a child has written when it ends, in the steps of runCommand.
SomeStdouts == SeqsUpTo(OutChunks, 1)
SomeStderrs == SeqsUpTo(ErrChunks, 1)

\* cmd.Run starts the child, or fails to.
StartCmd ==
    /\ Idle
    /\ op' = "runCommand"
    /\ params' = "valid"
    /\ cmdEnv' = CmdEnv(cenv, maps)
    /\ \/ /\ pc' = "running"
          /\ child' = "running"
          /\ started' = 1
          /\ UNCHANGED <<exit, rd, err>>
       \/ /\ pc' = "returned"
          /\ child' = "none"
          /\ started' = 0
          /\ exit' = "notstarted"
          /\ rd' = runCommand("notstarted", << >>, << >>).r
          /\ err' = runCommand("notstarted", << >>, << >>).err
    /\ UNCHANGED <<stdout, stderr, res, writer, written, ctx, orphan,
                   envVars, wdVars, auxVars>>

\* The child starts a process of its own, which inherits the write ends of
\* the pipes cmd.Stdout and cmd.Stderr are copied from.
Fork ==
    /\ pc = "running"
    /\ child = "running"
    /\ ~orphan
    /\ orphan' = TRUE
    /\ UNCHANGED <<callVars, envVars, pc, ctx, child, wdVars, auxVars>>

\* That process ends, or closes the pipes.
OrphanExit ==
    /\ orphan
    /\ orphan' = FALSE
    /\ UNCHANGED <<callVars, envVars, pc, ctx, child, wdVars, auxVars>>

\* The caller cancels the context, or its deadline passes.
Cancel ==
    /\ pc = "running"
    /\ ctx = "live"
    /\ ctx' = "cancelled"
    /\ UNCHANGED <<callVars, envVars, pc, child, orphan, wdVars, auxVars>>

\* exec.CommandContext: the context is done, the child is killed.
Kill ==
    /\ pc = "running"
    /\ ctx = "cancelled"
    /\ child = "running"
    /\ child' = "killed"
    /\ exit' = "killed"
    /\ \E out \in SomeStdouts, e \in SomeStderrs :
         stdout' = out /\ stderr' = e
    /\ UNCHANGED <<op, res, rd, err, started, params, writer, written, cmdEnv,
                   envVars, pc, ctx, orphan, wdVars, auxVars>>

\* The child ends by itself.
ChildExit ==
    /\ pc = "running"
    /\ child = "running"
    /\ child' = "exited"
    /\ \E x \in {"success", "failure"}, out \in SomeStdouts,
          e \in SomeStderrs :
         exit' = x /\ stdout' = out /\ stderr' = e
    /\ UNCHANGED <<op, res, rd, err, started, params, writer, written, cmdEnv,
                   envVars, pc, ctx, orphan, wdVars, auxVars>>

\* cmd.Run returns: the child has ended and its output was copied to the
\* end, which takes every write end of the pipes to be closed (no
\* cmd.WaitDelay is set).
Return ==
    /\ pc = "running"
    /\ child \in {"exited", "killed"}
    /\ ~orphan
    /\ pc' = "returned"
    /\ rd' = runCommand(exit, stdout, stderr).r
    /\ err' = runCommand(exit, stdout, stderr).err
    /\ UNCHANGED <<op, exit, stdout, stderr, res, started, params, writer,
                   written, cmdEnv, envVars, ctx, child, orphan, wdVars, auxVars>>

NextCtx ==
    \/ StartCmd
    \/ Fork
    \/ OrphanExit
    \/ Cancel
    \/ Kill
    \/ ChildExit
    \/ Return
    \/ Discard

\* The kill of exec.CommandContext and the return of cmd.Run happen when
\* they can; nothing makes the caller cancel, or a process end.
SpecCtx ==
    /\ Init
    /\ [][NextCtx]_vars
    /\ WF_vars(Kill)
    /\ WF_vars(Return)

----------------------------------------------------------------------------
(* Client.WithWorkDir called by concurrent callers on one Client: each     *)
(* statement is a step, c.workingDir is shared and not guarded by a lock.  *)

\* wd := c.workingDir (and the deferred restore is registered)
WSave(g) ==
    /\ wpc[g] = "idle"
    /\ wsaved' = [wsaved EXCEPT ![g] = workingDir]
    /\ wpc' = [wpc EXCEPT ![g] = "saved"]
    /\ UNCHANGED <<workingDir, wran, callVars, envVars, ctxVars, auxVars>>

\* c.workingDir = dir
WSet(g) ==
    /\ wpc[g] = "saved"
    /\ workingDir' = Dir(g)
    /\ wpc' = [wpc EXCEPT ![g] = "set"]
    /\ UNCHANGED <<wsaved, wran, callVars, envVars, ctxVars, auxVars>>

\* fn(c) runs a command: runCommand reads cmd.Dir = c.workingDir; fn
\* returns nil or the error of the command.
WRun(g) ==
    /\ wpc[g] = "set"
    /\ wran' = [wran EXCEPT ![g] = workingDir]
    /\ \E r \in {"ran", "failed"} : wpc' = [wpc EXCEPT ![g] = r]
    /\ UNCHANGED <<workingDir, wsaved, callVars, envVars, ctxVars, auxVars>>

\* the deferred c.workingDir = wd, and WithWorkDir returns
WRestore(g) ==
    /\ wpc[g] \in {"ran", "failed"}
    /\ workingDir' = wsaved[g]
    /\ wpc' = [wpc EXCEPT ![g] = IF wpc[g] = "ran" THEN "done" ELSE "doneErr"]
    /\ UNCHANGED <<wsaved, wran, callVars, envVars, ctxVars, auxVars>>

NextWD ==
    \/ \E g \in Callers : WSave(g)
    \/ \E g \in Callers : WSet(g)
    \/ \E g \in Callers : WRun(g)
    \/ \E g \in Callers : WRestore(g)

SpecWD == Init /\ [][NextWD]_vars

----------------------------------------------------------------------------
(* The argument builder of the --var flags: Vars.AsArgs and Vars2.AsArgs.   *)
(* A token is a sequence of pieces, so that "--var" and "key=value" have    *)
(* one shape; a value of a Vars2 map is a scalar, a slice or nil.           *)

\* The names of the variables, in the order of slices.Sort.
KeyOrder == <<"key1", "key2", "key3">>
VarKeys == {KeyOrder[i] : i \in DOMAIN KeyOrder}
KeyRank(k) == CHOOSE i \in DOMAIN KeyOrder : KeyOrder[i] = k

Str(x) == [t |-> "string", s |-> x, n |-> 0]
IntV(i) == [t |-> "int", s |-> "", n |-> i]
Scalars == {Str("value1"), IntV(100)}

\* fmt.Sprintf("%v", x) of a scalar.
Sprint(x) == IF x.t = "int" THEN ToString(x.n) ELSE x.s

Scalar(x) == [kind |-> "scalar", elems |-> <<x>>]
Slice(xs) == [kind |-> "slice", elems |-> xs]
Nil == [kind |-> "nil", elems |-> << >>]
Lists == UNION {[1..n -> Scalars] : n \in 0..MaxElems}
Values == {Scalar(x) : x \in Scalars} \cup {Slice(xs) : xs \in Lists}
              \cup {Nil}

\* The values of the types Vars2 (map[string]any) and Vars
\* (map[string]string).
Vars2Maps == UNION {[K -> Values] : K \in SUBSET VarKeys}
VarsMaps ==
    UNION {[K -> {Scalar(Str("value1")), Scalar(Str("value2"))}] :
              K \in SUBSET VarKeys}

Flag == <<"--var">>

\* append(args, "--var", fmt.Sprintf("%s=%v", k, x))
Pair(k, x) == <<Flag, <<k, "=", Sprint(x)>>>>

\* The loop over the elements of a slice or array.
RECURSIVE Expand(_, _)
Expand(k, xs) ==
    IF xs = << >> THEN << >>
    ELSE Pair(k, Head(xs)) \o Expand(k, Tail(xs))

\* The switch on the kind of v[k].
KeyArgs(k, v) ==
    IF v.kind = "slice" THEN Expand(k, v.elems)
    ELSE Pair(k, v.elems[1])

\* The loop over the keys, visited in the order ks.
RECURSIVE ArgsOf(_, _)
ArgsOf(v, ks) ==
    IF ks = << >> THEN << >>
    ELSE KeyArgs(Head(ks), v[Head(ks)]) \o ArgsOf(v, Tail(ks))

\* slices.Sort(keys)
SortedKeys_reversed(K) ==
    LET s == SelectSeq(KeyOrder, LAMBDA k : k \in K)
    IN  [i \in 1..Len(s) |-> s[Len(s) + 1 - i]]
SortedKeys(K) == SelectSeq(KeyOrder, LAMBDA k : k \in K)

\* The orders in which `for k, v := range v` may visit the keys of a map.
RangeOrders(K) ==
    {s \in [1..Cardinality(K) -> K] :
        \A i, j \in 1..Cardinality(K) : s[i] = s[j] => i = j}

\* What a call of AsArgs returned, or that it panicked.
Args(a) == [panic |-> FALSE, args |-> a]
Panicked == [panic |-> TRUE, args |-> << >>]

\* Vars2.AsArgs: reflect.TypeOf(nil) is nil and its Kind() dereferences it.
Vars2_AsArgs(v) ==
    IF \E k \in DOMAIN v : v[k].kind = "nil" THEN Panicked
    ELSE Args(ArgsOf(v, SortedKeys(DOMAIN v)))

\* Vars.AsArgs, the range having visited the keys in the order ks.
Vars_AsArgs(v, ks) == Args(ArgsOf(v, ks))

\* The caller makes one value of one of the two types.
NoVars == vmap = << >> /\ built = << >>

NewVars2 ==
    /\ NoVars
    /\ vtype' = "Vars2"
    /\ vmap' \in Vars2Maps
    /\ built' = << >>
    /\ UNCHANGED <<callVars, envVars, ctxVars, wdVars, fsVars, nestVars>>

NewVars ==
    /\ NoVars
    /\ vtype' = "Vars"
    /\ vmap' \in VarsMaps
    /\ built' = << >>
    /\ UNCHANGED <<callVars, envVars, ctxVars, wdVars, fsVars, nestVars>>

CallVars2AsArgs ==
    /\ vtype = "Vars2"
    /\ Len(built) < MaxBuilds
    /\ built' = Append(built, Vars2_AsArgs(vmap))
    /\ UNCHANGED <<vtype, vmap>>
    /\ UNCHANGED <<callVars, envVars, ctxVars, wdVars, fsVars, nestVars>>

CallVarsAsArgs ==
    /\ vtype = "Vars"
    /\ Len(built) < MaxBuilds
    /\ \E ks \in RangeOrders(DOMAIN vmap) :
           built' = Append(built, Vars_AsArgs(vmap, ks))
    /\ UNCHANGED <<vtype, vmap>>
    /\ UNCHANGED <<callVars, envVars, ctxVars, wdVars, fsVars, nestVars>>

NextArgs == NewVars2 \/ NewVars \/ CallVars2AsArgs \/ CallVarsAsArgs

SpecArgs == Init /\ [][NextArgs]_vars

----------------------------------------------------------------------------
(* WorkingDir: a temporary directory seeded with files and removed by      *)
(* Close. The disk is the set of the entries under os.TempDir(): root is   *)
(* the number of the temporary directory, rel the path below it (<< >> is  *)
(* the directory itself), dir tells a directory from a file.               *)

Entry(d, rel, isDir) == [root |-> d, rel |-> rel, dir |-> isDir]
Exists(D, d, rel) == \E e \in D : e.root = d /\ e.rel = rel
IsDir(D, d, rel) == Entry(d, rel, TRUE) \in D
Parent(rel) == SubSeq(rel, 1, Len(rel) - 1)

\* An *fs.PathError of the os package.
PathError(msg) ==
    [type |-> "PathError", cause |-> msg, Stdout |-> << >>,
     Stderr |-> << >>, Result |-> << >>]

\* What a file operation leaves on the disk and returns.
Fs(D, e) == [disk |-> D, err |-> e]

\* os.Create(path): the parent must be a directory, the path must not be.
Create(D, d, rel) ==
    IF ~IsDir(D, d, Parent(rel)) THEN Fs(D, PathError("no such directory"))
    ELSE IF IsDir(D, d, rel) THEN Fs(D, PathError("is a directory"))
    ELSE Fs(D \cup {Entry(d, rel, FALSE)}, NoErr)

\* WorkingDir.CreateFile; fnOK tells whether fn returned nil.
CreateFile(D, d, rel, fnOK) ==
    LET f == Create(D, d, rel)
    IN  IF ~IsNil(f.err) THEN f
        ELSE IF ~fnOK THEN Fs(f.disk, errorString("fn failed"))
        ELSE f

\* WorkingDir.WriteFile: CreateFile with a callback that writes the data.
WriteFile(D, d, rel) == CreateFile(D, d, rel, TRUE)

\* os.MkdirAll(path): makes the path and its parents, the temporary
\* directory included.
MkdirAll(D, d, rel) ==
    LET prefixes == {SubSeq(rel, 1, n) : n \in 0..Len(rel)}
    IN  IF \E p \in prefixes : Entry(d, p, FALSE) \in D
        THEN Fs(D, PathError("not a directory"))
        ELSE Fs(D \cup {Entry(d, p, TRUE) : p \in prefixes}, NoErr)

\* os.Mkdir(path)
Mkdir(D, d, rel) ==
    IF Exists(D, d, rel) THEN Fs(D, PathError("file exists"))
    ELSE IF ~IsDir(D, d, Parent(rel))
    THEN Fs(D, PathError("no such directory"))
    ELSE Fs(D \cup {Entry(d, rel, TRUE)}, NoErr)

\* os.WriteFile(path, data)
osWriteFile(D, d, rel) == Create(D, d, rel)

\* The source file systems handed to CopyFS, as fs.WalkDir visits them:
\* a file that is not ok fails fs.ReadFile.
Src(rel, isDir, ok) == [rel |-> rel, dir |-> isDir, ok |-> ok]
Sources ==
    [empty |-> << >>,
     flat |-> <<Src(<<"1.sql">>, FALSE, TRUE)>>,
     nested |-> <<Src(<<"sub">>, TRUE, TRUE),
                  Src(<<"sub", "2.sql">>, FALSE, TRUE)>>,
     broken |-> <<Src(<<"1.sql">>, FALSE, TRUE),
                  Src(<<"2.sql">>, FALSE, FALSE)>>]
SrcNames == DOMAIN Sources

\* The callback of fs.WalkDir over the entries es, stopping at an error.
RECURSIVE Walk(_, _, _, _)
Walk(D, d, dst, es) ==
    IF es = << >> THEN Fs(D, NoErr)
    ELSE LET e == Head(es)
             r == IF e.dir THEN Mkdir(D, d, dst \o e.rel)
                  ELSE IF ~e.ok THEN Fs(D, PathError("read failed"))
                  ELSE osWriteFile(D, d, dst \o e.rel)
         IN  IF ~IsNil(r.err) THEN r ELSE Walk(r.disk, d, dst, Tail(es))

\* WorkingDir.CopyFS; src is "nil" or the name of a source.
CopyFS(D, d, rel, src) ==
    IF src = "nil" THEN Fs(D, errorString("atlasexec: source is nil"))
    ELSE LET m == MkdirAll(D, d, rel)
         IN  IF ~IsNil(m.err) THEN m
             ELSE Walk(m.disk, d, rel, Sources[src])

\* os.RemoveAll(path): removes the path and what it holds; a path that
\* does not exist is no error.
RemoveAll(D, d) == Fs({e \in D : e.root # d}, NoErr)

\* WorkingDir.Close
Close_rmdir(D, d) ==
    IF \E e \in D : e.root = d /\ e.rel # << >>
    THEN Fs(D, PathError("directory not empty"))
    ELSE IF ~Exists(D, d, << >>) THEN Fs(D, PathError("no such directory"))
    ELSE Fs(D \ {Entry(d, << >>, TRUE)}, NoErr)
Close(D, d) == RemoveAll(D, d)

\* The options of NewWorkingDir.
AtlasHCL == <<"atlas.hcl">>
Migrations == <<"migrations">>
WithAtlasHCL(fnOK) == [opt |-> "WithAtlasHCL", fnOK |-> fnOK, src |-> "nil"]
WithMigrations(src) ==
    [opt |-> "WithMigrations", fnOK |-> TRUE, src |-> src]
Options ==
    {WithAtlasHCL(b) : b \in BOOLEAN}
        \cup {WithMigrations(s) : s \in SrcNames \cup {"nil"}}

\* One option applied to the WorkingDir of the directory d.
Option(D, d, o) ==
    IF o.opt = "WithAtlasHCL" THEN CreateFile(D, d, AtlasHCL, o.fnOK)
    ELSE IF o.src = "nil" THEN Fs(D, NoErr)
    ELSE CopyFS(D, d, Migrations, o.src)

\* The loop of NewWorkingDir over its options.
RECURSIVE ApplyOpts(_, _, _)
ApplyOpts(D, d, opts) ==
    IF opts = << >> THEN Fs(D, NoErr)
    ELSE LET r == Option(D, d, Head(opts))
         IN  IF ~IsNil(r.err) THEN r
             ELSE ApplyOpts(r.disk, d, Tail(opts))

\* The names the caller hands to WriteFile and CreateFile.
FileNames == {AtlasHCL, <<"migrations", "1.sql">>}

\* A file step leaves the rest of the call state alone.
FsStep(name, r) ==
    /\ op' = name
    /\ disk' = r.disk
    /\ err' = r.err
    /\ UNCHANGED <<exit, stdout, stderr, res, rd, started, params, writer,
                   written, cmdEnv>>
    /\ UNCHANGED <<envVars, ctxVars, wdVars, argVars, nestVars>>

\* NewWorkingDir(opts...), os.MkdirTemp having made a directory.
CallNewWorkingDir ==
    /\ nextDir < MaxDirs
    /\ \E opts \in UNION {[1..n -> Options] : n \in 0..MaxOpts} :
           LET d == nextDir + 1
               r == ApplyOpts(disk \cup {Entry(d, << >>, TRUE)}, d, opts)
           IN  /\ FsStep("NewWorkingDir", r)
               /\ wdir' = IF IsNil(r.err) THEN d ELSE 0
               /\ made' = d
               /\ nextDir' = d

\* NewWorkingDir, os.MkdirTemp having failed: tmpDir is "" and
\* os.RemoveAll("") does nothing.
FailNewWorkingDir ==
    /\ FsStep("NewWorkingDir", Fs(disk, PathError("mkdirtemp failed")))
    /\ wdir' = 0
    /\ made' = 0
    /\ UNCHANGED nextDir

CallWriteFile ==
    /\ wdir # 0
    /\ \E n \in FileNames : FsStep("WriteFile", WriteFile(disk, wdir, n))
    /\ UNCHANGED <<wdir, made, nextDir>>

CallCreateFile ==
    /\ wdir # 0
    /\ \E n \in FileNames, b \in BOOLEAN :
           FsStep("CreateFile", CreateFile(disk, wdir, n, b))
    /\ UNCHANGED <<wdir, made, nextDir>>

CallCopyFS ==
    /\ wdir # 0
    /\ \E s \in SrcNames \cup {"nil"} :
           FsStep("CopyFS", CopyFS(disk, wdir, Migrations, s))
    /\ UNCHANGED <<wdir, made, nextDir>>

CallClose ==
    /\ wdir # 0
    /\ FsStep("Close", Close(disk, wdir))
    /\ UNCHANGED <<wdir, made, nextDir>>

NextFS ==
    \/ CallNewWorkingDir
    \/ FailNewWorkingDir
    \/ CallWriteFile
    \/ CallCreateFile
    \/ CallCopyFS
    \/ CallClose

SpecFS == Init /\ [][NextFS]_vars

----------------------------------------------------------------------------
(* Client.WithWorkDir called by one caller, the callbacks calling it again *)
(* on the Client they are given. A frame holds the dir of the call, its    *)
(* local wd, and before: c.workingDir when the call was made.              *)

Frame(dir, wd) == [dir |-> dir, wd |-> wd, before |-> wd]
Top == stack[Len(stack)]
Outcomes == {"nil", "error", "panic"}

\* defer func() { c.workingDir = wd }(): what c.workingDir is once the call
\* is left, the callback having ended with the outcome o while
\* c.workingDir was cur.
Deferred_skippedByPanic(wd, cur, o) == IF o = "panic" THEN cur ELSE wd
Deferred(wd, cur, o) == wd

\* wd := c.workingDir; c.workingDir = dir; fn(c) begins.
WEnter ==
    /\ Len(stack) < MaxDepth
    /\ \E g \in Callers :
           /\ stack' = Append(stack, Frame(Dir(g), workingDir))
           /\ workingDir' = Dir(g)
    /\ ret' = "none"
    /\ UNCHANGED <<cmdDir, wpc, wsaved, wran>>
    /\ UNCHANGED <<callVars, envVars, ctxVars, argVars, fsVars>>

\* The callback runs a command: cmd.Dir = c.workingDir.
WCmd ==
    /\ stack # << >>
    /\ cmdDir' = workingDir
    /\ UNCHANGED <<stack, ret, wdVars>>
    /\ UNCHANGED <<callVars, envVars, ctxVars, argVars, fsVars>>

\* fn(c) returns nil or an error, or panics: the deferred function runs and
\* the call is left.
WLeave ==
    /\ stack # << >>
    /\ \E o \in Outcomes :
           /\ workingDir' = Deferred(Top.wd, workingDir, o)
           /\ ret' = o
    /\ stack' = SubSeq(stack, 1, Len(stack) - 1)
    /\ UNCHANGED <<cmdDir, wpc, wsaved, wran>>
    /\ UNCHANGED <<callVars, envVars, ctxVars, argVars, fsVars>>

NextNest == WEnter \/ WCmd \/ WLeave

SpecNest == Init /\ [][NextNest]_vars

----------------------------------------------------------------------------
(* Vocabulary of the properties. *)

ApplySliceOps == {"MigrateApplySlice", "SchemaApplySlice"}
ApplyOps == ApplySliceOps \cup {"MigrateApply", "SchemaApply"}
SoftOps == {"MigrateLint", "MigrateDown"}
SingleOps == {"MigrateApply", "SchemaApply", "MigrateStatus", "MigrateLint",
              "MigrateDown", "WhoAmI"}
DecodingOps == ApplyOps \cup SingleOps \cup {"Copilot"}

ApplyErrorTypes == {"MigrateApplyError", "SchemaApplyError"}
ApplyErrorOf(o) ==
    IF o \in {"MigrateApplySlice", "MigrateApply"} THEN "MigrateApplyError"
    ELSE "SchemaApplyError"

IsObject(c) == c \in {Obj1, Obj2, Obj3}
\* The text is a sequence of JSON objects, separated by whitespace or not.
OnlyObjects(s) == \A i \in 1..Len(s) : IsObject(s[i]) \/ s[i] \in Space
HasGarbage(s) == \E i \in 1..Len(s) : s[i] = NotJSON
Objects(s) == SelectSeq(s, IsObject)
\* The records the objects of the text stand for, in the order of the text.
Records(s) == [i \in 1..Len(Objects(s)) |-> Unmarshal[Objects(s)[i]]]
Blank(s) == \A i \in 1..Len(s) : s[i] \in Space

\* t is s without its leading and trailing whitespace.
IsTrimOf(t, s) ==
    /\ t # << >> => (t[1] \notin Space /\ t[Len(t)] \notin Space)
    /\ \E i \in 0..Len(s), j \in 0..Len(s) :
          /\ i + Len(t) + j = Len(s)
          /\ SubSeq(s, i + 1, i + Len(t)) = t
          /\ Blank(SubSeq(s, 1, i))
          /\ Blank(SubSeq(s, i + Len(t) + 1, Len(s)))

----------------------------------------------------------------------------
(* C1. An apply operation whose child exits with failure and whose trimmed *)
(* stderr is not empty returns the *Error carrying that stderr, never a    *)
(* MigrateApplyError / SchemaApplyError, whatever stdout holds.            *)
C1_StderrWins ==
    (op \in ApplyOps /\ exit = "failure" /\ ~Blank(stderr))
        => (err.type = "Error" /\ IsTrimOf(err.Stderr, stderr))

C3_Clean ==
    (op = "runCommand" /\ exit = "success" /\ stderr = << >>)
        => (err = NoErr /\ rd = stdout)

C3_Witness ==
    /\ op = "runCommand"
    /\ exit = "success"
    /\ stderr = << >>
    /\ stdout = <<NL, Obj1, NL>>
    /\ rd = <<NL, Obj1, NL>>
    /\ err = NoErr

(* C4. A multi-target apply that exits with failure, empty stderr and      *)
(* N >= 1 JSON records on stdout returns the apply error of its command,   *)
(* whose Result holds the N records in the order emitted and whose Error() *)
(* text is the Error field of the last record.                             *)
C4_PartialFailure ==
    (/\ op \in ApplyOps
     /\ exit = "failure"
     /\ Blank(stderr)
     /\ OnlyObjects(stdout)
     /\ Len(Objects(stdout)) >= 1)
        => /\ err.type = ApplyErrorOf(op)
           /\ err.Result = Records(stdout)
           /\ ApplyError_Error(err) =
                  Unmarshal[Objects(stdout)[Len(Objects(stdout))]].Error
           /\ res = << >>

C4_Witness ==
    /\ op = "MigrateApplySlice"
    /\ exit = "failure"
    /\ stderr = << >>
    /\ stdout = <<Obj1, NL, Obj2>>
    /\ err.type = "MigrateApplyError"
    /\ Len(err.Result) = 2
    /\ ApplyError_Error(err) = "e2"

(* C5, as stated. On a failed exit with empty stderr and stdout that       *)
(* parses as JSON records, an apply operation returns the partial-failure  *)
(* error only if some decoded record has a populated Error field.          *)
C5_OnlyWithRecordError ==
    (/\ op \in ApplyOps
     /\ exit = "failure"
     /\ Blank(stderr)
     /\ OnlyObjects(stdout)
     /\ err.type \in ApplyErrorTypes)
        => \E i \in 1..Len(Objects(stdout)) :
              Unmarshal[Objects(stdout)[i]].Error # ""

(* C5, amended. On a failed exit with empty stderr an apply operation      *)
(* returns the partial-failure error exactly when the trimmed stdout is    *)
(* not empty and parses as JSON records, whether or not a record has a     *)
(* populated Error field: the apply operations have no soft failure.       *)
C5_WheneverRecords ==
    (op \in ApplyOps /\ exit = "failure" /\ Blank(stderr))
        => (err.type \in ApplyErrorTypes
               <=> (OnlyObjects(stdout) /\ Len(Objects(stdout)) >= 1))

C5_Witness ==
    /\ op = "SchemaApplySlice"
    /\ exit = "failure"
    /\ stderr = << >>
    /\ stdout = <<Obj1>>
    /\ err.type = "SchemaApplyError"
    /\ \A i \in 1..Len(err.Result) : err.Result[i].Error = ""

(* C6. MigrateApplySlice, SchemaApplySlice, MigrateLint and MigrateDown    *)
(* report a child that exits with failure and leaves stderr and stdout     *)
(* empty as a malformed-output error (an *Error without stderr), never as  *)
(* a partial failure, a soft failure or success.                           *)
C6_EmptyIsMalformed ==
    (/\ op \in ApplySliceOps \cup SoftOps
     /\ exit = "failure"
     /\ Blank(stderr)
     /\ Blank(stdout))
        => (err.type = "Error" /\ err.Stderr = << >> /\ res = << >>)

(* C7, as stated. A JSON-decoding operation whose child exits with         *)
(* failure, empty stderr and stdout that is not JSON returns no result and *)
(* a malformed-output error whose Stdout is the child's stdout verbatim.   *)
C7_StdoutVerbatim ==
    (/\ op \in DecodingOps
     /\ exit = "failure"
     /\ Blank(stderr)
     /\ HasGarbage(stdout))
        => (err.type = "Error" /\ err.Stdout = stdout /\ res = << >>)

(* C7, amended. ... whose Stdout is the child's stdout without its leading *)
(* and trailing whitespace.                                                *)
C7_StdoutTrimmed ==
    (/\ op \in DecodingOps
     /\ exit = "failure"
     /\ Blank(stderr)
     /\ HasGarbage(stdout))
        => /\ err.type = "Error"
           /\ err.Stderr = << >>
           /\ IsTrimOf(err.Stdout, stdout)
           /\ res = << >>

C7_Witness ==
    /\ op = "MigrateLint"
    /\ exit = "failure"
    /\ stderr = << >>
    /\ stdout = <<NotJSON, NL>>
    /\ err.type = "Error"
    /\ err.Stdout = <<NotJSON>>

\* The calls of the single-target operations in which stdout was decoded.
Decoded ==
    /\ op \in SingleOps
    /\ OnlyObjects(stdout)
    /\ \/ exit = "success"
       \/ op \in SoftOps /\ exit = "failure" /\ Blank(stderr)

(* C8. firstResult returns the record and no error when the decoded        *)
(* sequence has exactly one record, and no record and the cardinality      *)
(* error when it has none or more than one.                                *)
C8_ExactlyOne ==
    Decoded =>
        IF Len(Objects(stdout)) = 1
        THEN res = Records(stdout) /\ err = NoErr
        ELSE res = << >> /\ err = errorString(MoreThanOne)

C8_Witness ==
    /\ op = "WhoAmI"
    /\ exit = "success"
    /\ stdout = <<Obj1, NL, Obj2>>
    /\ res = << >>
    /\ err.type = "errorString"

(* C9. jsonDecode of N >= 0 JSON objects written one after the other       *)
(* returns N records, the i-th being the decoding of the i-th object, and  *)
(* no error.                                                               *)
C9_RoundTrip ==
    (op = "Copilot" /\ exit = "success" /\ OnlyObjects(stdout))
        => /\ err = NoErr
           /\ Len(res) = Len(Objects(stdout))
           /\ \A i \in 1..Len(res) : res[i] = Unmarshal[Objects(stdout)[i]]

C9_Witness ==
    /\ op = "Copilot"
    /\ exit = "success"
    /\ stdout = <<Obj2, NL, Obj1>>
    /\ res = <<Unmarshal[Obj2], Unmarshal[Obj1]>>
    /\ err = NoErr

(* C10. When decoding fails at any object, jsonDecode returns no records   *)
(* (those decoded before the failure are dropped) and an error whose       *)
(* Stdout holds the complete buffer, the decoded part included.            *)
C10_AllOrNothing ==
    (op = "Copilot" /\ exit = "success" /\ HasGarbage(stdout))
        => (res = << >> /\ err.type = "Error" /\ err.Stdout = stdout)

C10_Witness ==
    /\ op = "Copilot"
    /\ exit = "success"
    /\ stdout = <<Obj1, NL, NotJSON>>
    /\ res = << >>
    /\ err.Stdout = <<Obj1, NL, NotJSON>>

----------------------------------------------------------------------------
(* C11. SetEnv called with a map that holds one of the fixed keys returns  *)
(* the configuration error, starts no process, and leaves c.env, and so    *)
(* the environment of later commands, as it was before the call.           *)

HoldsFixedKey(m) == \E k \in DOMAIN m : k \in DOMAIN defaultEnvs

C11_FixedKeyRejected ==
    [][(op = "none" /\ op' = "SetEnv" /\ arg' # 0 /\ HoldsFixedKey(maps[arg']))
        => /\ err'.type = "errorString"
           /\ err'.cause = CannotOverride
           /\ started' = 0
           /\ cenv' = cenv
           /\ CmdEnv(cenv', maps') = CmdEnv(cenv, maps)]_vars

\* A map with a fixed key was rejected while another map was configured.
C11_Witness ==
    /\ op = "SetEnv"
    /\ arg # 0
    /\ HoldsFixedKey(maps[arg])
    /\ err.type = "errorString"
    /\ cenv # 0
    /\ cenv # arg

----------------------------------------------------------------------------
(* C12. Whatever SetEnv calls were made, accepted or rejected, and however *)
(* the caller changed its maps afterwards, the environment handed to a     *)
(* child has, for each fixed key, exactly one entry of that name, and its  *)
(* value is 1.                                                             *)

EntriesOf(k, env) == {i \in DOMAIN env : EntryKey(env[i]) = k}

C12_FixedKeysOnce ==
    started >= 1 =>
        \A k \in DOMAIN defaultEnvs :
            /\ Cardinality(EntriesOf(k, cmdEnv)) = 1
            /\ \A i \in EntriesOf(k, cmdEnv) : EntryVal(cmdEnv[i]) = <<"1">>

----------------------------------------------------------------------------
(* C13. Error.ExitCode never panics and returns a non-zero code for every  *)
(* Error that carries no process exit status: the zero value Error{}, an   *)
(* Error built by the JSON decoder, an Error of a process that never       *)
(* started.                                                                *)

ZeroError == Error("", << >>, << >>)

C13_ExitCodeTotal ==
    /\ ~ExitCode(ZeroError).panic
    /\ ExitCode(ZeroError).code # 0
    /\ (err.type = "Error" /\ err.cause \notin ExitErrors)
         => (~ExitCode(err).panic /\ ExitCode(err).code # 0)

\* An Error of the decoder, and one of a process that never started.
C13_Witness ==
    \/ /\ op \in DecodingOps
       /\ exit = "success"
       /\ err.type = "Error"
       /\ err.cause = DecodeErr
    \/ /\ exit = "notstarted"
       /\ err.type = "Error"
       /\ err.cause = "exec.Error"

----------------------------------------------------------------------------
(* C14. MigrateLintError, when the child fails with empty stderr and       *)
(* non-empty stdout, returns an error that is LintErr by errors.Is, and a  *)
(* writer that takes the bytes has received that stdout (trimmed, as       *)
(* runCommand keeps it); when stderr is not empty it returns the CLI       *)
(* *Error with that stderr, which is not LintErr, and nothing is written.  *)

C14_LintErrOrCLIError ==
    (op = "MigrateLintError" /\ exit = "failure") =>
        /\ (TrimSpace(stderr) = << >> /\ TrimSpace(stdout) # << >>)
             => /\ Is(err, LintErr)
                /\ writer = "buffer" => written = TrimSpace(stdout)
        /\ TrimSpace(stderr) # << >>
             => /\ err = Error("exec.ExitError", TrimSpace(stdout),
                               TrimSpace(stderr))
                /\ ~Is(err, LintErr)
                /\ written = << >>

\* Both cases, each with a writer given and text on stdout.
C14_Witness ==
    /\ op = "MigrateLintError"
    /\ exit = "failure"
    /\ writer = "buffer"
    /\ TrimSpace(stdout) # << >>
    /\ \/ TrimSpace(stderr) = << >> /\ written # << >> /\ err = LintErr
       \/ TrimSpace(stderr) # << >> /\ err.type = "Error"

----------------------------------------------------------------------------
(* C15. MigrateLint and MigrateDown, when the child fails with empty       *)
(* stderr and a stdout that is exactly one JSON object, return the record  *)
(* decoded from it and a nil error.                                        *)

C15_SoftFailureIsResult ==
    (/\ op \in SoftOps
     /\ exit = "failure"
     /\ TrimSpace(stderr) = << >>
     /\ OnlyObjects(stdout)
     /\ Len(Objects(stdout)) = 1)
        => (res = Records(stdout) /\ err = NoErr)

\* MigrateLint returned the findings of a failed lint, whitespace around.
C15_Witness ==
    /\ op = "MigrateLint"
    /\ exit = "failure"
    /\ stderr = <<NL>>
    /\ stdout = <<Obj2, NL>>
    /\ res = <<Unmarshal[Obj2]>>
    /\ err = NoErr

----------------------------------------------------------------------------
(* C16. When the context is cancelled while the child is running (and the  *)
(* child is killed for it), every operation returns an error that is       *)
(* recognisable as the context's cancellation: not nil, and not an error   *)
(* of one of the tool-failure classes.                                     *)

ContextErrors == {"context.Canceled", "context.DeadlineExceeded"}
\* errors.Is(e, context.Canceled) or errors.Is(e, context.DeadlineExceeded),
\* through Error.Unwrap.
IsCancellation(e) == e.type = "Error" /\ e.cause \in ContextErrors

C16_CancellationClass ==
    (pc = "returned" /\ ctx = "cancelled" /\ child = "killed")
        => IsCancellation(err)

----------------------------------------------------------------------------
(* C17. When the context is cancelled while the child is running, the      *)
(* child is terminated and the call eventually returns; and once the call  *)
(* has returned, the child it started is not running.                      *)

C17_TerminatesAndReturns ==
    /\ [](pc = "returned" => child # "running")
    /\ (pc = "running" /\ ctx = "cancelled" /\ child = "running")
          ~> child # "running"
    /\ (pc = "running" /\ ctx = "cancelled" /\ child = "running")
          ~> pc = "returned"

----------------------------------------------------------------------------
(* C18. A call starts at most one child process, also when the child       *)
(* fails; and a call whose parameters fail validation returns an error     *)
(* and has started none.                                                   *)

ValidatingOps == {"Login", "MigratePush", "MigrateLint", "SchemaPlanPush",
                  "SchemaPlanLint", "SchemaPlanValidate", "SchemaPlanPull",
                  "SchemaPlanApprove"}

----------------------------------------------------------------------------
(* C19. With two callers in WithWorkDir on one Client at the same time,    *)
(* each with its own directory, the command of each caller runs in the     *)
(* directory that caller passed, and when both calls have returned         *)
(* c.workingDir is what it was before them.                                *)

Returned(g) == wpc[g] \in {"done", "doneErr"}

C19_ConcurrentWorkDirs ==
    /\ \A g \in Callers : wran[g] # "none" => wran[g] = Dir(g)
    /\ (\A g \in Callers : Returned(g)) => workingDir = OrigDir

----------------------------------------------------------------------------
(* C20. What a JSON-decoding operation reports is decided by the exit      *)
(* status, stdout and stderr of the child alone: every other               *)
(* JSON-decoding operation reports the same class of outcome for them.     *)
(* As amended: this holds between the operations of one family, which      *)
(* also return the same records; the families differ.                      *)

\* What operation o, given valid parameters, returns for the outcome.
Result(o, x, out, e) ==
    CASE o = "Copilot" -> Copilot(x, out, e)
      [] o = "WhoAmI" -> WhoAmI(x, out, e)
      [] o = "MigrateStatus" -> MigrateStatus(x, out, e)
      [] o = "MigrateApplySlice" -> MigrateApplySlice(x, out, e)
      [] o = "MigrateApply" -> MigrateApply(x, out, e)
      [] o = "SchemaApplySlice" -> SchemaApplySlice(x, out, e)
      [] o = "SchemaApply" -> SchemaApply(x, out, e)
      [] o = "MigrateDown" -> MigrateDown(x, out, e)
      [] o = "MigrateLint" -> MigrateLint(FALSE, x, out, e)
      [] o = "SchemaPlanLint" -> SchemaPlanLint(FALSE, x, out, e)
      [] o = "SchemaPlanApprove" -> SchemaPlanApprove(FALSE, x, out, e)

\* The class of a returned pair, by what the caller can tell apart.
Class(rr) ==
    IF IsNil(rr.err) THEN "result"
    ELSE IF rr.err.type = "Error" THEN "cli-error"
    ELSE IF rr.err.type \in ApplyErrorTypes THEN "partial-failure"
    ELSE "cardinality"

Families ==
    {{"MigrateApplySlice", "SchemaApplySlice"},
     {"MigrateApply", "SchemaApply"},
     {"MigrateLint", "MigrateDown"},
     {"MigrateStatus", "WhoAmI", "SchemaPlanLint", "SchemaPlanApprove"},
     {"Copilot"}}

----------------------------------------------------------------------------
(* C21. A command that fails with stderr "Error: <msg>" returns an error   *)
(* whose message is "<msg>": the prefix removed, nothing added.            *)
(* As amended: the message of the *Error is the stderr text as runCommand  *)
(* keeps it, trimmed, with the prefix "Error: " in place.                  *)

FailedWithErrorLine ==
    /\ exit = "failure"
    /\ TrimSpace(stderr) # << >>
    /\ Head(TrimSpace(stderr)) = ErrText
    /\ err.type = "Error"

----------------------------------------------------------------------------
(* C25. A failed invocation whose stderr holds only whitespace is handled  *)
(* as one whose stderr is empty: the operation returns what it returns for *)
(* the same exit status and stdout with nothing on stderr (the apply       *)
(* operations and MigrateLint, MigrateDown decode stdout), and the Stdout  *)
(* and Stderr of the Error it returns neither begin nor end with           *)
(* whitespace.                                                             *)

ResultOps == DecodingOps \cup {"SchemaPlanLint", "SchemaPlanApprove"}
Failed == exit \in {"failure", "killed"}
Trimmed(s) == s # << >> => (Head(s) \notin Space /\ s[Len(s)] \notin Space)

C25_WhitespaceIsEmpty ==
    (op \in ResultOps /\ params = "valid" /\ Failed)
        => /\ Blank(stderr)
                => /\ res = Result(op, exit, stdout, << >>).r
                   /\ err = Result(op, exit, stdout, << >>).err
           /\ (Blank(stderr) /\ op \in ApplySliceOps /\ OnlyObjects(stdout)
                  /\ Len(Objects(stdout)) >= 1)
                => err.Result = Records(stdout)
           /\ (Blank(stderr) /\ op \in SoftOps /\ OnlyObjects(stdout)
                  /\ Len(Objects(stdout)) = 1)
                => res = Records(stdout)
           /\ err.type = "Error"
                => (Trimmed(err.Stdout) /\ Trimmed(err.Stderr))

\* Whitespace on stderr and around the records: the records are decoded.
C25_Witness ==
    /\ op = "SchemaApplySlice"
    /\ exit = "failure"
    /\ stderr = <<NL, NL>>
    /\ stdout = <<NL, Obj2, NL>>
    /\ err.type = "SchemaApplyError"
    /\ err.Result = <<Unmarshal[Obj2]>>

----------------------------------------------------------------------------
(* C27. Every MigrateApplyError or SchemaApplyError that MigrateApplySlice *)
(* or SchemaApplySlice returns has at least one record in Result, so its   *)
(* Error() does not panic, whatever the child did; for a failed exit with  *)
(* both streams empty the error returned is the *Error.                    *)

C27_ApplyErrorHasRecords ==
    op \in ApplySliceOps
        => /\ err.type \in ApplyErrorTypes
                => (Len(err.Result) >= 1 /\ ApplyError_Error(err) # Panic)
           /\ (Failed /\ Blank(stdout) /\ Blank(stderr)) => err.type = "Error"

\* The failed exit with nothing but whitespace written.
C27_Witness ==
    /\ op = "MigrateApplySlice"
    /\ exit = "failure"
    /\ stdout = <<NL>>
    /\ stderr = << >>
    /\ err = Error("exec.ExitError", << >>, << >>)

----------------------------------------------------------------------------
(* C28. A call of a single-target operation returns either a result and a  *)
(* nil error, or a nil result and an error, never both and never neither;  *)
(* a partial failure of the multi-target run under MigrateApply or         *)
(* SchemaApply comes back as the partial-failure error with a nil result,  *)
(* not as the cardinality error, however many records there are.           *)

C28_ResultXorError ==
    op \in SingleOps
        => /\ (res # << >> /\ IsNil(err)) \/ (res = << >> /\ ~IsNil(err))
           /\ Len(res) <= 1
           /\ (/\ op \in {"MigrateApply", "SchemaApply"}
               /\ exit = "failure"
               /\ Blank(stderr)
               /\ OnlyObjects(stdout)
               /\ Len(Objects(stdout)) >= 1)
                => /\ res = << >>
                   /\ err.type = ApplyErrorOf(op)
                   /\ err.Result = Records(stdout)

\* Two records of a failed apply: the partial failure, no cardinality error.
C28_Witness ==
    /\ op = "MigrateApply"
    /\ exit = "failure"
    /\ stderr = << >>
    /\ stdout = <<Obj1, Obj2>>
    /\ res = << >>
    /\ err.type = "MigrateApplyError"
    /\ Len(err.Result) = 2

----------------------------------------------------------------------------
(* C29. When the child exited with failure, every operation but            *)
(* MigrateLint and MigrateDown returns an error, whatever the child wrote; *)
(* so does MigrateLintError.                                               *)

C29_FailureIsAnError ==
    (Failed /\ op \notin SoftOps) => ~IsNil(err)

\* MigrateLintError after a failure that wrote nothing, and a failure with
\* nothing but a JSON record on stdout under an operation that reads text.
C29_Witness ==
    /\ exit = "failure"
    /\ Blank(stderr)
    /\ \/ op = "MigrateLintError" /\ Blank(stdout) /\ err.type = "Error"
       \/ op = "MigratePush" /\ stdout = <<Obj1>> /\ err.type = "Error"

----------------------------------------------------------------------------
(* C23. Building the arguments is deterministic: two calls of AsArgs on    *)
(* the same value return the same tokens in the same order, also for a     *)
(* Vars map with two or more keys.                                         *)
C23_SameArgsTwice ==
    Len(built) >= 2 => built[1] = built[2]

\* The case of the claim: a Vars map with two keys, built twice.
C23_TwoKeysBuiltTwice ==
    /\ vtype = "Vars"
    /\ Cardinality(DOMAIN vmap) >= 2
    /\ Len(built) >= 2

----------------------------------------------------------------------------
(* C24. Vars2.AsArgs visits the keys in ascending order and emits, for     *)
(* each key, one pair ("--var", "key=value") when the value is a scalar    *)
(* and one pair per element, in element order, when it is a slice or an    *)
(* array: two tokens for every emitted value.                              *)

\* The "key=value" tokens of an argument vector: its even positions.
ValueTokens(a) == [i \in 1..(Len(a) \div 2) |-> a[2 * i]]

\* The tokens the claim describes for the key k of the map v.
Described(v, k) ==
    IF k \notin DOMAIN v THEN << >>
    ELSE IF v[k].kind = "scalar" THEN <<<<k, "=", Sprint(v[k].elems[1])>>>>
    ELSE [j \in 1..Len(v[k].elems) |-> <<k, "=", Sprint(v[k].elems[j])>>]

AsDescribed(v, a) ==
    /\ Len(a) % 2 = 0
    /\ \A i \in 1..Len(a) : i % 2 = 1 => a[i] = Flag
    /\ \A i, j \in 1..(Len(a) \div 2) :
           i < j => KeyRank(ValueTokens(a)[i][1])
                        <= KeyRank(ValueTokens(a)[j][1])
    /\ \A k \in VarKeys :
           SelectSeq(ValueTokens(a), LAMBDA t : t[1] = k) = Described(v, k)

C24_SortedPairs ==
    vtype = "Vars2" =>
        \A i \in DOMAIN built :
            ~built[i].panic => AsDescribed(vmap, built[i].args)

C24_Witness ==
    /\ vtype = "Vars2"
    /\ built # << >>
    /\ ~built[1].panic
    /\ DOMAIN vmap = {"key1", "key3"}
    /\ vmap["key1"].kind = "slice"
    /\ Len(vmap["key1"].elems) = 2
    /\ vmap["key3"].kind = "scalar"
    /\ Len(built[1].args) = 6

----------------------------------------------------------------------------
(* C22. WorkingDir.Close is idempotent: after any WriteFile, CreateFile    *)
(* and CopyFS calls a Close returns no error and leaves nothing of the     *)
(* temporary directory on the disk, and a Close that follows a Close       *)
(* returns no error and changes nothing.                                   *)

\* Nothing of the directory d is on the disk.
Gone(D, d) == \A e \in D : e.root # d

C22_CloseIsIdempotent ==
    [][op' = "Close" =>
          /\ IsNil(err')
          /\ Gone(disk', wdir)
          /\ (op = "Close" => disk' = disk)]_vars

\* A Close has returned for the directory the caller holds.
C22_Witness ==
    /\ op = "Close"
    /\ wdir # 0
    /\ Gone(disk, wdir)
    /\ IsNil(err)

----------------------------------------------------------------------------
(* C30. NewWorkingDir leaves nothing behind when it fails: if it returns   *)
(* an error, the temporary directory it created for that call is not on    *)
(* the disk.                                                               *)
C30_NothingLeftBehind ==
    (op = "NewWorkingDir" /\ ~IsNil(err)) => Gone(disk, made)

\* The case of the claim: an option failed after the directory was made.
C30_OptionFailed ==
    /\ op = "NewWorkingDir"
    /\ ~IsNil(err)
    /\ made # 0

----------------------------------------------------------------------------
(* C26. WithWorkDir(dir, fn) runs fn with c.workingDir set to dir, and     *)
(* when the call is left c.workingDir is what it was before the call,      *)
(* whether fn returned nil, returned an error or panicked, nested calls    *)
(* included.                                                               *)
C26_WorkDirRestored ==
    [][/\ Len(stack') > Len(stack) =>
              workingDir' = stack'[Len(stack')].dir
       /\ cmdDir' # cmdDir => cmdDir' = Top.dir
       /\ Len(stack') < Len(stack) => workingDir' = Top.before]_vars

\* A nested call was left by a panic and the enclosing callback goes on.
C26_Witness ==
    /\ ret = "panic"
    /\ Len(stack) = 1
    /\ workingDir = Top.dir
    /\ Top.before = OrigDir

====
